---- MODULE Spec2Model ----
(***************************************************************************)
(* Firmware image engine of munifying (package unifying): Intel-HEX record *)
(* loading, TI / Nordic format detection, CRC validation and the           *)
(* BOT03.02 -> BOT03.01 downgrade patcher.                                 *)
(*                                                                         *)
(* The flash layout is kept in the proportions of the source, in units of  *)
(* Page bytes (the source's page is 0x400 bytes): 0x6000 is 24 pages,      *)
(* 0x6400 is 25, 0x6800 is 26, 0x7400 is 29.  Integer fields keep their    *)
(* width: uint16 arithmetic is modulo 2^16, byte arithmetic modulo 2^8.    *)
(* A Go slice is a record [nil, arr, len]: arr is the backing array from   *)
(* the slice's first element up to its capacity, len its length.           *)
(***************************************************************************)
EXTENDS Integers, Sequences, FiniteSets, TLC

VARIABLES
    phase,    \* where the caller is: "start", "parsed", "downgraded", "hex", "push", "crashed"
    f,        \* the *Firmware the caller holds, NoFirmware when nil
    err,      \* what the last call returned: "nil", "error", or "panic" when it panicked
    patched,  \* the buffer the last downgrade returned
    gen,      \* parses made in this chain of calls
    blob,     \* the buffer given to the last ParseFirmwareBin
    lines,    \* ParseFirmwareHex: the lines of the file not yet scanned
    pushes,   \* direct pushRawHexLine calls made on f
    pre,      \* the entity as it was before the last call
    ghost,    \* ParseFirmwareHex: the entity loaded from the well-formed lines alone
    recs,     \* the <<address, length>> of the data records pushRawHexLine accepted
    ran,      \* the detectors the last classification ran, in order
    last      \* the last call and its argument

vars == <<phase, f, err, patched, gen, blob, lines, pushes, pre, ghost, recs, ran, last>>

-----------------------------------------------------------------------------
(* Bounds of the model *)

\* bytes per flash page in the model (0x400 in the source)
Page == 8
\* spare capacity a growing append or a decoded line may come with
Slack == 2
\* parses of one image chain: the first parse and the parse of its downgrade
MaxGen == 2
\* direct pushRawHexLine calls on one entity
MaxPush == 3

-----------------------------------------------------------------------------
(* Integer widths *)

W16 == 65536
W8 == 256

U16(x) == x % W16
U8(x) == x % W8

Min(S) == CHOOSE x \in S : \A y \in S : x <= y
Max(S) == CHOOSE x \in S : \A y \in S : x >= y

\* bit k of x, and x with bit k inverted
Bit(x, k) == (x \div (2 ^ k)) % 2
FlipBit(x, k) == IF Bit(x, k) = 1 THEN x - 2 ^ k ELSE x + 2 ^ k

\* a ^ b on bytes
Xor8(a, b) ==
      ((Bit(a, 0) + Bit(b, 0)) % 2)
    + ((Bit(a, 1) + Bit(b, 1)) % 2) * 2
    + ((Bit(a, 2) + Bit(b, 2)) % 2) * 4
    + ((Bit(a, 3) + Bit(b, 3)) % 2) * 8
    + ((Bit(a, 4) + Bit(b, 4)) % 2) * 16
    + ((Bit(a, 5) + Bit(b, 5)) % 2) * 32
    + ((Bit(a, 6) + Bit(b, 6)) % 2) * 64
    + ((Bit(a, 7) + Bit(b, 7)) % 2) * 128

Rep(n, b) == [i \in 1..n |-> b]

-----------------------------------------------------------------------------
(* Layout constants of the source, in pages *)

FIRMWARE_TARGET_TYPE_UNKNOWN == 0
FIRMWARE_TARGET_TYPE_NORDIC == 1
FIRMWARE_TARGET_TYPE_TI == 2

SignatureSize == 256

\* 0x0400: size of the prepended bootloader
BootloaderSize == Page
\* 0x3f8: USB VID inside the bootloader, 8 bytes before its end
VidOffset == Page - 8
\* 0x6000: size of an image for BOT03.02
BL0302Size == 24 * Page
\* 0x800: growth of the image by the downgrade
GrowBy == 2 * Page
\* 0x6400, 0x6800: candidate sizes of a Nordic image
NordicSizeA == 25 * Page
NordicSizeB == 26 * Page
\* 0x7400, and 0x7400+0xbb0: the appended Nordic bootloader and its VID
NordicBLBase == 29 * Page
NordicVidPos == NordicBLBase + 3 * Page - 2

Marker == <<254, 192, 173, 222>>

-----------------------------------------------------------------------------
(* Go slices *)

NilSlice == [nil |-> TRUE, arr |-> <<>>, len |-> 0]
MkSlice(a, n) == [nil |-> FALSE, arr |-> a, len |-> n]
Cap(s) == Len(s.arr)
Bytes(s) == SubSeq(s.arr, 1, s.len)
\* s[lo:hi], legal when lo <= hi <= cap(s)
CanReslice(s, lo, hi) == lo <= hi /\ hi <= Cap(s)
Reslice(s, lo, hi) == MkSlice(SubSeq(s.arr, lo + 1, Cap(s)), hi - lo)

\* strings.Index / bytes.Index: first position (from 0) of sep in s, or -1
Index(s, sep) ==
    LET cand == {i \in 0..(Len(s) - Len(sep)) : SubSeq(s, i + 1, i + Len(sep)) = sep}
    IN IF cand = {} THEN -1 ELSE Min(cand)

\* bytes.Replace(s, old, new, -1) with len(old) > 0: the leftmost non-overlapping
\* matches are replaced.  The scan is folded over the positions lo..hi of s; a
\* scan state is the output so far and the next position not yet consumed.
ReplaceStep(st, s, old, new, p) ==
    IF p < st.next THEN st
    ELSE IF p + Len(old) - 1 <= Len(s) /\ SubSeq(s, p, p + Len(old) - 1) = old
         THEN [out |-> st.out \o new, next |-> p + Len(old)]
         ELSE [out |-> Append(st.out, s[p]), next |-> p + 1]

RECURSIVE ReplaceScan(_, _, _, _, _, _)
ReplaceScan(st, s, old, new, lo, hi) ==
    IF lo > hi \/ st.next > hi THEN st
    ELSE IF lo = hi THEN ReplaceStep(st, s, old, new, lo)
    ELSE LET mid == (lo + hi) \div 2
         IN ReplaceScan(ReplaceScan(st, s, old, new, lo, mid), s, old, new, mid + 1, hi)

Replace(s, old, new) ==
    IF Len(s) = 0 THEN <<>>
    ELSE ReplaceScan([out |-> <<>>, next |-> 1], s, old, new, 1, Len(s)).out

-----------------------------------------------------------------------------
(* crc16.Checksum(data, crc16.MakeTable(crc16.CRC16_CCITT_FALSE)):         *)
(* polynomial 0x1021, initial value 0xFFFF, no reflection, no final xor    *)

CrcInit == 65535

\* one shift of the register; when the top bit falls out, the polynomial
\* 0x1021 (bits 12, 5 and 0) is added
CrcShift(r) ==
    IF r >= 32768 THEN FlipBit(FlipBit(FlipBit(U16(2 * r), 0), 5), 12) ELSE 2 * r

\* one byte: added to the high byte of the register, then eight shifts
CrcByte(reg, byte) ==
    CrcShift(CrcShift(CrcShift(CrcShift(
    CrcShift(CrcShift(CrcShift(CrcShift(
        Xor8(reg \div 256, byte) * 256 + (reg % 256)))))))))

\* the bytes lo..hi of s folded into the CRC register c, in order (the first
\* test has TLC evaluate the register before it descends into the range)
RECURSIVE CrcRange(_, _, _, _)
CrcRange(c, s, lo, hi) ==
    IF c >= W16 \/ lo > hi THEN c
    ELSE IF lo = hi THEN CrcByte(c, s[lo])
    ELSE LET mid == (lo + hi) \div 2
         IN CrcRange(CrcRange(c, s, lo, mid), s, mid + 1, hi)

Checksum(s) == CrcRange(CrcInit, s, 1, Len(s))

-----------------------------------------------------------------------------
(* type Firmware struct *)

ZeroFirmware ==
    [RawData |-> NilSlice, Size |-> 0, StartOffset |-> 0, LastOffset |-> 0,
     HasBL |-> FALSE, CRC |-> 0, TailPos |-> 0,
     Signature |-> Rep(SignatureSize, 0), HasSignature |-> FALSE,
     TargetType |-> FIRMWARE_TARGET_TYPE_UNKNOWN]

\* a nil *Firmware
NoFirmware == [none |-> TRUE]

Ret(fw, e) == [f |-> fw, err |-> e]

-----------------------------------------------------------------------------
(* func (f *Firmware) ParseFirmwareTI() *)

TIFinish(f2) ==
    LET rd == f2.RawData
        lo == f2.StartOffset
        hi == U16(f2.StartOffset + f2.Size - 6)
    IN  \* f.RawData[f.TailPos+1], f.RawData[f.TailPos]
        IF U16(f2.TailPos + 1) >= rd.len \/ f2.TailPos >= rd.len THEN Ret(f2, "panic")
        ELSE LET f3 == [f2 EXCEPT !.CRC = rd.arr[U16(f2.TailPos + 1) + 1] * 256
                                          + rd.arr[f2.TailPos + 1]]
             IN  \* f.RawData[f.StartOffset:f.StartOffset+f.Size-6]
                 IF ~CanReslice(rd, lo, hi) THEN Ret(f3, "panic")
                 ELSE IF Checksum(SubSeq(rd.arr, lo + 1, hi)) # f3.CRC
                      THEN Ret(f3, "error")
                      ELSE Ret(f3, "nil")

ParseFirmwareTI(f0) ==
    \* assumed_bootloader := f.RawData[:0x0400]
    IF ~CanReslice(f0.RawData, 0, BootloaderSize) THEN Ret(f0, "panic")
    ELSE LET rd == f0.RawData
             vid == rd.arr[VidOffset + 1] = 109 /\ rd.arr[VidOffset + 2] = 4
             f1 == [f0 EXCEPT !.HasBL = vid,
                              !.StartOffset = IF vid THEN BootloaderSize ELSE 0]
         IN  \* f.RawData[f.StartOffset:]
             IF f1.StartOffset > rd.len THEN Ret(f1, "panic")
             ELSE LET pos == Index(SubSeq(rd.arr, f1.StartOffset + 1, rd.len), Marker)
                      size == U16(U16(pos) + 4)
                  IN IF pos < 0 THEN Ret(f1, "error")
                     ELSE TIFinish([f1 EXCEPT
                                      !.Size = size,
                                      !.LastOffset = U16(size + f1.StartOffset - 1),
                                      !.TailPos = U16(f1.StartOffset + size - 6)])

-----------------------------------------------------------------------------
(* func (f *Firmware) ParseFirmwareNordic() *)

\* a Nordic candidate whose LastOffset is one past the last byte
NordicCandidate_LastOffsetPastEnd(f1, size) ==
    LET rd == f1.RawData
        f2 == [f1 EXCEPT !.StartOffset = 0, !.LastOffset = size, !.Size = size,
                         !.CRC = rd.arr[size - 1] * 256 + rd.arr[size]]
    IN Ret(f2, IF Checksum(SubSeq(rd.arr, 1, size - 2)) = f2.CRC THEN "nil" ELSE "error")

\* one candidate image size: set the layout, read the stored CRC, compare
NordicCandidate(f1, size) ==
    LET rd == f1.RawData
        f2 == [f1 EXCEPT !.StartOffset = 0, !.LastOffset = size - 1, !.Size = size,
                         !.CRC = rd.arr[size - 1] * 256 + rd.arr[size]]
    IN Ret(f2, IF Checksum(SubSeq(rd.arr, 1, size - 2)) = f2.CRC THEN "nil" ELSE "error")

\* the VID test of the first statement panics when an index it evaluates is
\* not below len(f.RawData); && evaluates left to right and stops early
NordicVidPanics(rd) ==
    /\ rd.len > NordicBLBase
    /\ \/ NordicVidPos >= rd.len
       \/ rd.arr[NordicVidPos + 1] = 4 /\ NordicVidPos + 1 >= rd.len

NordicVid(rd) ==
    /\ rd.len > NordicBLBase
    /\ rd.arr[NordicVidPos + 1] = 4
    /\ rd.arr[NordicVidPos + 2] = 109

\* the function after its first statement: the candidate sizes 0x6400, 0x6800
NordicSizes(f1) ==
    IF f1.RawData.len < NordicSizeA THEN Ret(f1, "error")
    ELSE LET a == NordicCandidate(f1, NordicSizeA) IN
         IF a.err = "nil" THEN a
         ELSE IF f1.RawData.len < NordicSizeB THEN Ret(a.f, "error")
              ELSE NordicCandidate(a.f, NordicSizeB)

ParseFirmwareNordic(f0) ==
    IF NordicVidPanics(f0.RawData) THEN Ret(f0, "panic")
    ELSE NordicSizes([f0 EXCEPT !.HasBL = NordicVid(f0.RawData)])

-----------------------------------------------------------------------------
(* The classification shared by ParseFirmwareBin and ParseFirmwareHex.     *)
(* The result records which detectors ran.                                 *)

Classify(f0) ==
    LET f1 == [f0 EXCEPT !.TargetType = FIRMWARE_TARGET_TYPE_UNKNOWN]
        ti == ParseFirmwareTI(f1)
    IN IF ti.err = "panic" THEN [f |-> ti.f, err |-> "panic", ran |-> <<"TI">>]
       ELSE IF ti.err = "nil"
            THEN [f |-> [ti.f EXCEPT !.TargetType = FIRMWARE_TARGET_TYPE_TI],
                  err |-> "nil", ran |-> <<"TI">>]
            ELSE LET no == ParseFirmwareNordic(ti.f) IN
                 IF no.err = "panic"
                 THEN [f |-> no.f, err |-> "panic", ran |-> <<"TI", "Nordic">>]
                 ELSE IF no.err = "nil"
                      THEN [f |-> [no.f EXCEPT !.TargetType = FIRMWARE_TARGET_TYPE_NORDIC],
                            err |-> "nil", ran |-> <<"TI", "Nordic">>]
                      ELSE \* return nil, errors.New("unsupported firmware format ...")
                           [f |-> NoFirmware, err |-> "error", ran |-> <<"TI", "Nordic">>]

\* func ParseFirmwareBin(binblob []byte)
ParseFirmwareBin(binblob) == Classify([ZeroFirmware EXCEPT !.RawData = binblob])

-----------------------------------------------------------------------------
(* func (f *Firmware) BaseImageDowngradeFromBL0302ToBL0301() *)

\* the 14 substitutions, in the order the code applies them
PatchSet ==
    << << <<144, 228, 0>>,        <<144, 236, 0>> >>,
       << <<122, 4, 123, 228>>,   <<122, 4, 123, 236>> >>,
       << <<144, 232, 0>>,        <<144, 240, 0>> >>,
       << <<122, 4, 123, 232>>,   <<122, 4, 123, 240>> >>,
       << <<8, 116, 228>>,        <<8, 116, 236>> >>,
       << <<117, 15, 232>>,       <<117, 15, 240>> >>,
       << <<121, 26>>,            <<121, 28>> >>,
       << <<127, 26, 121, 127>>,  <<127, 28, 121, 127>> >>,
       << <<127, 25>>,            <<127, 27>> >>,
       << <<121, 25>>,            <<121, 27>> >>,
       << <<242, 8, 116, 232>>,   <<242, 8, 116, 240>> >>,
       << <<15, 228, 34>>,        <<15, 236, 34>> >>,
       << <<0, 123, 100>>,        <<0, 123, 108>> >>,
       << <<5, 121, 25>>,         <<5, 121, 27>> >> >>

RECURSIVE ApplyPatches(_, _)
ApplyPatches(s, k) ==
    IF k > Len(PatchSet) THEN s
    ELSE ApplyPatches(Replace(s, PatchSet[k][1], PatchSet[k][2]), k + 1)

\* the image after "resizing firmware": the copy of the base image with its CRC
\* and end marker, and all appended bytes, overwritten with 0xFF
Resized(base, n) ==
    [i \in 1..n |-> IF i > BL0302Size - 6 THEN 255
                    ELSE IF i <= Len(base) THEN base[i] ELSE 0]

\* a sealing that stores the CRC high byte first
Sealed_CrcHighByteFirst(img) ==
    LET n == Len(img)
        m == [i \in 1..n |-> IF i > n - 4 THEN Marker[i - (n - 4)] ELSE img[i]]
        c == Checksum(SubSeq(m, 1, n - 6))
    IN [i \in 1..n |-> IF i = n - 5 THEN c \div 256
                       ELSE IF i = n - 4 THEN c % 256
                       ELSE m[i]]

\* the new end marker, then the CRC of everything before the CRC field
Sealed(img) ==
    LET n == Len(img)
        m == [i \in 1..n |-> IF i > n - 4 THEN Marker[i - (n - 4)] ELSE img[i]]
        c == Checksum(SubSeq(m, 1, n - 6))
    IN [i \in 1..n |-> IF i = n - 5 THEN c % 256
                       ELSE IF i = n - 4 THEN c \div 256
                       ELSE m[i]]

DgRet(img, e) == [img |-> img, err |-> e]

\* a downgrade that omits the Size precondition
Downgrade_NoSizeCheck(fw) ==
    IF fw.TargetType # FIRMWARE_TARGET_TYPE_TI THEN DgRet(NilSlice, "error")
    ELSE LET n == U16(fw.Size + GrowBy)
             lo == fw.StartOffset
             hi == U16(fw.StartOffset + fw.Size)
         IN IF ~CanReslice(fw.RawData, lo, hi) THEN DgRet(NilSlice, "panic")
            ELSE LET img == Sealed(ApplyPatches(
                                Resized(SubSeq(fw.RawData.arr, lo + 1, hi), n), 1))
                 IN DgRet(MkSlice(img, Len(img)), "nil")

BaseImageDowngradeFromBL0302ToBL0301(fw) ==
    IF fw.TargetType # FIRMWARE_TARGET_TYPE_TI THEN DgRet(NilSlice, "error")
    ELSE IF fw.Size # BL0302Size THEN DgRet(NilSlice, "error")
    ELSE LET n == U16(fw.Size + GrowBy)
             lo == fw.StartOffset
             hi == U16(fw.StartOffset + fw.Size)
         IN IF ~CanReslice(fw.RawData, lo, hi) THEN DgRet(NilSlice, "panic")
            ELSE LET img == Sealed(ApplyPatches(
                                Resized(SubSeq(fw.RawData.arr, lo + 1, hi), n), 1))
                 IN DgRet(MkSlice(img, Len(img)), "nil")

-----------------------------------------------------------------------------
(* Raw binary inputs *)

Overlay(s, at, frag) ==
    IF at + Len(frag) > Len(s) THEN s
    ELSE [i \in 1..Len(s) |-> IF i > at /\ i <= at + Len(frag) THEN frag[i - at] ELSE s[i]]

\* code that the patch set matches: patterns 1, 4, 7, 8, 14, 13, 12, and the
\* overlapping pair 7f 1a 79 19
PatchableCode ==
    <<144, 228, 0, 122, 4, 123, 232, 121, 26, 127, 26, 121, 127,
      5, 121, 25, 0, 123, 100, 15, 228, 34, 127, 26, 121, 25>>

BodyVariants == {"plain", "code", "vid", "vidcode"}

TIBody(n, v) ==
    LET s0 == Rep(n, 17)
        s1 == IF v \in {"code", "vidcode"} THEN Overlay(s0, Page, PatchableCode) ELSE s0
    IN IF v \in {"vid", "vidcode"} THEN Overlay(s1, VidOffset, <<109, 4>>) ELSE s1

\* an image of n >= 6 bytes: body, CRC (little endian), end marker
TIImage(n, v, crcok) ==
    LET b == TIBody(n - 6, v)
        c == IF crcok THEN Checksum(b) ELSE U16(Checksum(b) + 1)
    IN b \o <<c % 256, c \div 256>> \o Marker

BootloaderPage == Overlay(Rep(Page, 0), VidOffset, <<109, 4>>)

TISizes == {BL0302Size, BL0302Size + GrowBy, 2 * Page}

TIBlobs ==
    {LET a == pfx \o TIImage(n, v, crcok) \o sfx IN MkSlice(a, Len(a)) :
        n \in TISizes, v \in BodyVariants, crcok \in BOOLEAN,
        pfx \in {<<>>, BootloaderPage}, sfx \in {<<>>, <<0, 0, 0>>}}

\* images whose end marker is found fewer than 2 bytes after StartOffset
TinyBlobs ==
    {LET a == pfx \o Rep(k, 17) \o Marker \o Rep(Page, 0) IN MkSlice(a, Len(a)) :
        k \in {0, 1}, pfx \in {<<>>, BootloaderPage}}

\* buffers shorter than a bootloader, with and without spare capacity
ShortBlobs ==
    {MkSlice(Rep(n + c, 0), n) : n \in {0, 1, Page - 1}, c \in {0, Page}}

\* a Nordic image of n bytes: body, CRC (big endian)
NordicImage(n, v, crcok) ==
    LET s0 == Rep(n - 2, 34)
        b == IF v = "marker" THEN Overlay(s0, Page, <<1, 2>> \o Marker) ELSE s0
        c == IF crcok THEN Checksum(b) ELSE U16(Checksum(b) + 1)
    IN b \o <<c \div 256, c % 256>>

\* what follows a Nordic image in a dump, up to total length n
NordicTail(img, n, vid) ==
    LET a == img \o Rep(n - Len(img), 0)
    IN IF vid THEN Overlay(a, NordicVidPos, <<4, 109>>) ELSE a

NordicLens ==
    {NordicSizeA, NordicSizeB, NordicSizeB + 1, NordicBLBase, NordicBLBase + 1,
     NordicVidPos + 1, NordicVidPos + 2}

NordicBlobs ==
    {LET a == NordicTail(NordicImage(p[1], v, crcok), p[2], p[3]) IN MkSlice(a, Len(a)) :
        p \in {q \in {NordicSizeA, NordicSizeB} \X NordicLens \X BOOLEAN :
                 q[2] >= q[1] /\ (q[3] => q[2] >= NordicVidPos + 1)},
        v \in {"plain", "marker"}, crcok \in BOOLEAN}
    \cup
    \* a dump that ends inside the VID field, whose first VID byte is 04
    {LET a == Overlay(NordicTail(NordicImage(NordicSizeA, "plain", TRUE),
                                 NordicVidPos + 1, FALSE), NordicVidPos, <<4>>)
     IN MkSlice(a, Len(a))}

BinBlobs == TIBlobs \cup TinyBlobs \cup ShortBlobs \cup NordicBlobs

-----------------------------------------------------------------------------
(* func (f *Firmware) pushRawHexLine(hexline []byte) *)

\* append(rd, tail...) with tail the 0xFF bytes up to length n: in place when the
\* capacity allows, else into a new array whose spare capacity (slack, zeroed)
\* is the allocator's choice
AppendFF(rd, n, slack) ==
    IF n <= Cap(rd)
    THEN MkSlice([i \in 1..Cap(rd) |-> IF i > rd.len /\ i <= n THEN 255 ELSE rd.arr[i]], n)
    ELSE MkSlice(Bytes(rd) \o Rep(n - rd.len, 255) \o Rep(slack, 0), n)

\* copy(dst[lo:], src)
CopyAt(dst, lo, src) ==
    [i \in 1..Len(dst) |-> IF i > lo /\ i <= lo + Len(src) THEN src[i - lo] ELSE dst[i]]

\* case 0x00: firmware data
PushData(fw, addr, resultsize, data, slack) ==
    LET f1 == IF fw.RawData.nil
              THEN [fw EXCEPT !.StartOffset = U16(addr), !.RawData = MkSlice(<<>>, 0)]
              ELSE fw
        rd1 == IF f1.RawData.len < resultsize
               THEN AppendFF(f1.RawData, resultsize, slack)
               ELSE f1.RawData
        rd2 == [rd1 EXCEPT !.arr = CopyAt(rd1.arr, addr, data)]
        so == IF U16(addr) < f1.StartOffset THEN U16(addr) ELSE f1.StartOffset
        f2 == [f1 EXCEPT !.RawData = rd2, !.StartOffset = so]
    IN IF U16(resultsize) > U16(f2.Size + f2.StartOffset)
       THEN LET size == U16(U16(resultsize) - f2.StartOffset)
            IN Ret([f2 EXCEPT !.Size = size,
                              !.LastOffset = U16(f2.StartOffset + size - 1)], "nil")
       ELSE Ret(f2, "nil")

\* case 0xfd: signature data
PushSignature(fw, addr, resultsize, data) ==
    LET f1 == [fw EXCEPT !.HasSignature = TRUE]
    IN IF resultsize > SignatureSize THEN Ret(f1, "error")
       ELSE Ret([f1 EXCEPT !.Signature = CopyAt(f1.Signature, addr, data)], "nil")

pushRawHexLine(fw, hexline, slack) ==
    IF hexline.nil \/ hexline.len < 4 THEN Ret(fw, "error")
    ELSE LET length == hexline.arr[1]
             addr == hexline.arr[2] * 256 + hexline.arr[3]
             target == hexline.arr[4]
             resultsize == addr + length
             \* 4+length is computed in a byte
             hi == U8(4 + length)
         IN \* data := hexline[4 : 4+length]
            IF ~CanReslice(hexline, 4, hi) THEN Ret(fw, "panic")
            ELSE LET data == SubSeq(hexline.arr, 5, hi)
                 IN IF target = 0 THEN PushData(fw, addr, resultsize, data, slack)
                    ELSE IF target = 253 THEN PushSignature(fw, addr, resultsize, data)
                    ELSE Ret(fw, "error")

-----------------------------------------------------------------------------
(* func ParseFirmwareHex(ihex_file_path string): a line is its characters, *)
(* as ASCII codes                                                          *)

\* encoding/hex: value of a hex digit, 16 for any other character
FromHexChar(ch) ==
    IF ch >= 48 /\ ch <= 57 THEN ch - 48
    ELSE IF ch >= 97 /\ ch <= 102 THEN ch - 87
    ELSE IF ch >= 65 /\ ch <= 70 THEN ch - 55
    ELSE 16

\* hex.DecodeString(text): the bytes, and whether err == nil.  The library
\* either decodes in place, so that the result's capacity still holds the
\* second half of the text, or into a buffer of exactly the decoded length.
DecodeString(text, inplace) ==
    LET n == Len(text) \div 2
        ok == Len(text) % 2 = 0 /\ \A i \in 1..Len(text) : FromHexChar(text[i]) < 16
        dec == [i \in 1..n |-> FromHexChar(text[2 * i - 1]) * 16 + FromHexChar(text[2 * i])]
    IN [ok |-> ok,
        bytes |-> IF ~ok THEN NilSlice
                  ELSE IF inplace THEN MkSlice(dec \o SubSeq(text, n + 1, Len(text)), n)
                  ELSE MkSlice(dec, n)]

\* the body of the scanner loop for one line; the result of pushRawHexLine is
\* dropped, a panic is not
ScanLine(fw, line, inplace, slack) ==
    \* line := scanner.Text()[1:]
    IF Len(line) < 1 THEN Ret(fw, "panic")
    ELSE LET d == DecodeString(Tail(line), inplace)
         IN IF ~d.ok THEN Ret(fw, "nil")
            ELSE IF d.bytes.len < 4 \/ (d.bytes.arr[4] # 0 /\ d.bytes.arr[4] # 253)
                 THEN Ret(fw, "nil")
                 ELSE LET r == pushRawHexLine(fw, d.bytes, slack)
                      IN Ret(r.f, IF r.err = "panic" THEN "panic" ELSE "nil")

\* after the loop: trim the buffer to the span of the records, then classify
FinishHex(fw) ==
    LET lo == fw.StartOffset
        hi == U16(fw.StartOffset + fw.Size)
    IN \* f.RawData = f.RawData[f.StartOffset:f.StartOffset+f.Size]
       IF ~CanReslice(fw.RawData, lo, hi)
       THEN [f |-> fw, err |-> "panic", ran |-> <<>>]
       ELSE Classify([fw EXCEPT !.RawData =
                        IF fw.RawData.nil THEN NilSlice ELSE Reslice(fw.RawData, lo, hi)])

-----------------------------------------------------------------------------
(* Intel HEX inputs *)

HexDigit(v) == IF v < 10 THEN 48 + v ELSE 55 + v

RECURSIVE HexOf(_)
HexOf(bs) ==
    IF Len(bs) = 0 THEN <<>>
    ELSE IF Len(bs) = 1 THEN <<HexDigit(bs[1] \div 16), HexDigit(bs[1] % 16)>>
    ELSE LET mid == Len(bs) \div 2
         IN HexOf(SubSeq(bs, 1, mid)) \o HexOf(SubSeq(bs, mid + 1, Len(bs)))

RECURSIVE SumOf(_)
SumOf(bs) ==
    IF Len(bs) = 0 THEN 0
    ELSE IF Len(bs) = 1 THEN bs[1]
    ELSE LET mid == Len(bs) \div 2
         IN SumOf(SubSeq(bs, 1, mid)) + SumOf(SubSeq(bs, mid + 1, Len(bs)))

\* the bytes of a record: length, address, type, data
Record(addr, type, data) == <<Len(data), addr \div 256, addr % 256, type>> \o data

\* a line of a HEX file: ':' then the record and its checksum byte in hex
Line(addr, type, data) ==
    LET r == Record(addr, type, data)
    IN <<58>> \o HexOf(r \o <<(256 - (SumOf(r) % 256)) % 256>>)

\* the lines of the data records that lay img out from address base, chunk
\* bytes to a record
RECURSIVE DataLines(_, _, _)
DataLines(img, base, chunk) ==
    IF Len(img) = 0 THEN <<>>
    ELSE IF Len(img) <= chunk THEN <<Line(base, 0, img)>>
    ELSE <<Line(base, 0, SubSeq(img, 1, chunk))>>
         \o DataLines(SubSeq(img, chunk + 1, Len(img)), base + chunk, chunk)

Reverse(q) == [i \in 1..Len(q) |-> q[Len(q) + 1 - i]]

\* the end-of-file record of Intel HEX, type 01
EofLine == Line(0, 1, <<>>)
\* lines that do not decode: a character that is no hex digit, an odd length
BadCharLine == <<58, 48, 52, 71, 48>>
OddLine == <<58, 48, 52, 48>>
\* lines that decode to fewer than 4 bytes: one byte, only the ':', nothing
ShortLine == <<58, 48, 48>>
ColonLine == <<58>>
EmptyLine == <<>>
\* a data record that declares 4 data bytes and holds 2
MismatchLine == <<58>> \o HexOf(<<4, 0, 0, 0, 1, 2>>)

ChunkSize == 12 * Page

TILines(n, v) == DataLines(TIImage(n, v, TRUE), Page, ChunkSize)
NordicLines(img) == DataLines(img, 0, ChunkSize)

HexFiles ==
    LET ti == TILines(BL0302Size, "code")
        small == TILines(2 * Page, "plain")
        na == NordicImage(NordicSizeA, "plain", TRUE)
    IN { ti \o <<EofLine>>,
         \* data after the end marker
         ti \o <<Line(Page + BL0302Size, 0, <<1, 2, 3>>), EofLine>>,
         \* the records in descending address order
         Reverse(ti),
         \* lines to skip among the records
         <<BadCharLine, ti[1], OddLine, ShortLine, ColonLine, ti[2], EofLine>>,
         <<ti[1], EmptyLine, ti[2]>>,
         small \o <<EmptyLine>>,
         <<ShortLine>> \o small,
         small \o <<EofLine>>,
         Reverse(DataLines(TIImage(2 * Page, "plain", TRUE), Page, Page)),
         \* signature records, the second out of bounds
         <<Line(0, 253, <<1, 2, 3>>), Line(255, 253, <<9, 9>>)>> \o small,
         \* an image with the VID bytes at VidOffset of its own code
         TILines(BL0302Size, "vid"),
         \* Nordic images: exact, and followed by more data
         NordicLines(na),
         NordicLines(NordicTail(na, NordicSizeB, FALSE)),
         NordicLines(NordicImage(NordicSizeB, "marker", TRUE)),
         \* no data record at all, fewer bytes than a bootloader, a short record
         <<EofLine>>,
         <<Line(0, 0, <<1, 2, 3>>)>>,
         <<MismatchLine>> \o small }

\* []byte arguments of direct pushRawHexLine calls
DataRecords == {<<0, 2>>, <<4, 2>>, <<8, 2>>, <<4, 4>>}

PushLines ==
    {LET r == Record(d[1], 0, Rep(d[2], 170)) \o <<0>> IN MkSlice(r, Len(r)) :
        d \in DataRecords}
    \cup {MkSlice(r, Len(r)) :
        r \in { <<1, 2, 3>>,                      \* fewer than 4 bytes
                Record(0, 1, <<>>),               \* record type 01
                Record(4, 4, <<7, 7>>),           \* record type 04
                Record(0, 253, <<5, 6>>),         \* signature data
                Record(255, 253, <<5, 6>>),       \* signature data, out of bounds
                <<4, 0, 0, 0, 1, 2>>,             \* declares 4 data bytes, holds 2
                <<252, 0, 0, 0, 1>> }}            \* 4+length wraps in a byte
    \cup {NilSlice,
          \* declares 4 data bytes, holds 2, with spare capacity
          MkSlice(<<4, 0, 0, 0, 1, 2, 48, 50>>, 6)}

\* what the interface calls a line to skip: it does not decode, or decodes to
\* fewer than 4 bytes, or its record type is neither 0x00 nor 0xFD
BadLine(line) ==
    LET d == DecodeString(IF Len(line) = 0 THEN <<>> ELSE Tail(line), FALSE)
    IN \/ ~d.ok
       \/ d.bytes.len < 4
       \/ d.bytes.arr[4] \notin {0, 253}

-----------------------------------------------------------------------------
(* The state machine *)

Init ==
    /\ phase = "start"
    /\ f = NoFirmware
    /\ err = "nil"
    /\ patched = NilSlice
    /\ gen = 0
    /\ blob = NilSlice
    /\ lines = <<>>
    /\ pushes = 0
    /\ pre = NoFirmware
    /\ ghost = NoFirmware
    /\ recs = {}
    /\ ran = <<>>
    /\ last = [op |-> "none"]

\* what a classification leaves: the entity, the error, the detectors that ran
Parsed(r) ==
    /\ phase' = IF r.err = "panic" THEN "crashed" ELSE "parsed"
    /\ f' = r.f
    /\ err' = r.err
    /\ ran' = r.ran
    /\ gen' = gen + 1
    /\ patched' = NilSlice

\* f, err := ParseFirmwareBin(binblob) on a dump
CallParseFirmwareBin ==
    /\ phase = "start"
    /\ \E b \in BinBlobs :
         /\ Parsed(ParseFirmwareBin(b))
         /\ blob' = b
         /\ pre' = [ZeroFirmware EXCEPT !.RawData = b]
    /\ last' = [op |-> "bin"]
    /\ UNCHANGED <<lines, pushes, ghost, recs>>

\* img, err := f.BaseImageDowngradeFromBL0302ToBL0301() on a parsed entity
CallDowngrade ==
    /\ phase = "parsed"
    /\ f # NoFirmware
    /\ LET r == BaseImageDowngradeFromBL0302ToBL0301(f) IN
         /\ phase' = IF r.err = "panic" THEN "crashed" ELSE "downgraded"
         /\ patched' = r.img
         /\ err' = r.err
    /\ pre' = f
    /\ last' = [op |-> "downgrade"]
    /\ UNCHANGED <<f, gen, blob, lines, pushes, ghost, recs, ran>>

\* f, err := ParseFirmwareBin(img) on the downgraded image
CallReparse ==
    /\ phase = "downgraded"
    /\ ~patched.nil
    /\ gen < MaxGen
    /\ Parsed(ParseFirmwareBin(patched))
    /\ blob' = patched
    /\ pre' = [ZeroFirmware EXCEPT !.RawData = patched]
    /\ last' = [op |-> "rebin"]
    /\ UNCHANGED <<lines, pushes, ghost, recs>>

\* ParseFirmwareHex up to its loop: the file is open, f = &Firmware{}
HexOpen ==
    /\ phase = "start"
    /\ \E file \in HexFiles : lines' = file
    /\ phase' = "hex"
    /\ f' = ZeroFirmware
    /\ ghost' = ZeroFirmware
    /\ pre' = ZeroFirmware
    /\ err' = "nil"
    /\ last' = [op |-> "open"]
    /\ UNCHANGED <<patched, gen, blob, pushes, recs, ran>>

\* ParseFirmwareHex: one turn of the scanner loop
HexScan ==
    /\ phase = "hex"
    /\ lines # <<>>
    /\ \E inplace \in BOOLEAN, slack \in {0, Slack} :
         LET line == Head(lines)
             r == ScanLine(f, line, inplace, slack)
         IN /\ f' = r.f
            /\ err' = r.err
            /\ phase' = IF r.err = "panic" THEN "crashed" ELSE "hex"
            /\ ghost' = IF BadLine(line) THEN ghost
                        ELSE ScanLine(ghost, line, inplace, slack).f
            /\ last' = [op |-> "scan", bad |-> BadLine(line)]
    /\ lines' = Tail(lines)
    /\ pre' = f
    /\ UNCHANGED <<patched, gen, blob, pushes, recs, ran>>

\* ParseFirmwareHex after its loop: trim, classify, return
HexFinish ==
    /\ phase = "hex"
    /\ lines = <<>>
    /\ Parsed(FinishHex(f))
    /\ pre' = f
    /\ last' = [op |-> "hex"]
    /\ UNCHANGED <<blob, lines, pushes, ghost, recs>>

\* f := &Firmware{}, for direct calls of pushRawHexLine
NewFirmware ==
    /\ phase = "start"
    /\ phase' = "push"
    /\ f' = ZeroFirmware
    /\ pre' = ZeroFirmware
    /\ last' = [op |-> "new"]
    /\ UNCHANGED <<err, patched, gen, blob, lines, pushes, ghost, recs, ran>>

\* err := f.pushRawHexLine(hexline)
CallPushRawHexLine ==
    /\ phase = "push"
    /\ pushes < MaxPush
    /\ \E h \in PushLines, slack \in {0, Slack} :
         LET r == pushRawHexLine(f, h, slack) IN
            /\ f' = r.f
            /\ err' = r.err
            /\ phase' = IF r.err = "panic" THEN "crashed" ELSE "push"
            /\ recs' = IF r.err = "nil" /\ h.arr[4] = 0
                       THEN recs \cup {<<h.arr[2] * 256 + h.arr[3], h.arr[1]>>}
                       ELSE recs
            /\ last' = [op |-> "push", line |-> h]
    /\ pushes' = pushes + 1
    /\ pre' = f
    /\ UNCHANGED <<patched, gen, blob, lines, ghost, ran>>

Next ==
    \/ CallParseFirmwareBin
    \/ CallDowngrade
    \/ CallReparse
    \/ HexOpen
    \/ HexScan
    \/ HexFinish
    \/ NewFirmware
    \/ CallPushRawHexLine

Spec == Init /\ [][Next]_vars


-----------------------------------------------------------------------------
(* Properties *)

AfterBin == last.op \in {"bin", "rebin"}
AfterDowngrade == last.op = "downgrade"
IsTI(fw) == fw # NoFirmware /\ fw.TargetType = FIRMWARE_TARGET_TYPE_TI
IsNordic(fw) == fw # NoFirmware /\ fw.TargetType = FIRMWARE_TARGET_TYPE_NORDIC

DowngradeRejects ==
    (AfterDowngrade /\ ~(IsTI(f) /\ f.Size = BL0302Size)) =>
        (err = "error" /\ patched.nil)

\* C2 as stated: the preconditions reject, and the parse of a downgraded image
\* yields an entity of Size 0x6800, which the second downgrade rejects.
C2_Original ==
    /\ DowngradeRejects
    /\ last.op = "rebin" => (f # NoFirmware /\ f.Size = BL0302Size + GrowBy)
    /\ (AfterDowngrade /\ gen = 2) => (err = "error" /\ patched.nil)

\* C2, amended: the preconditions reject; the parse of a downgraded image never
\* yields a TI entity of Size 0x6000 (it fails, or yields another family or
\* size, and yields Size 0x6800 whenever it classifies the image as TI without
\* a bootloader), so every second downgrade is rejected.
C2_SecondDowngradeRejected ==
    /\ DowngradeRejects
    /\ last.op = "rebin" => ~(IsTI(f) /\ f.Size = BL0302Size)
    /\ (last.op = "rebin" /\ IsTI(f) /\ ~f.HasBL) => f.Size = BL0302Size + GrowBy
    /\ (AfterDowngrade /\ gen = 2) => (err = "error" /\ patched.nil)

\* a second downgrade was tried, on the TI entity parsed from a downgraded image
C2_Witness ==
    AfterDowngrade /\ gen = 2 /\ IsTI(f) /\ f.Size = BL0302Size + GrowBy /\ err = "error"

\* C3: ParseFirmwareBin ends in exactly one of three outcomes, decided by the
\* buffer: TI when the TI detector succeeds (Nordic is not run), Nordic when TI
\* fails and Nordic succeeds, the error and no entity when both fail; an entity
\* returned is never of type Unknown.
C3_ThreeOutcomes ==
    AfterBin =>
        LET ti == ParseFirmwareTI(pre)
        IN \/ /\ ti.err = "nil"
              /\ err = "nil" /\ IsTI(f) /\ ran = <<"TI">>
           \/ /\ ti.err = "error" /\ ParseFirmwareNordic(ti.f).err = "nil"
              /\ err = "nil" /\ IsNordic(f) /\ ran = <<"TI", "Nordic">>
           \/ /\ ti.err = "error" /\ ParseFirmwareNordic(ti.f).err = "error"
              /\ err = "error" /\ f = NoFirmware /\ ran = <<"TI", "Nordic">>

\* C4 as stated: after a successful ParseFirmwareHex, LastOffset is
\* StartOffset + Size - 1 and the trimmed buffer is Size bytes long.
C4_Original ==
    (last.op = "hex" /\ err = "nil") =>
        /\ f.LastOffset = f.StartOffset + f.Size - 1
        /\ f.RawData.len = f.Size

\* C4, amended: after a successful ParseFirmwareHex, LastOffset is
\* StartOffset + Size - 1 and the trimmed buffer holds at least the
\* StartOffset + Size bytes of the classified image.
C4_HexLayout ==
    (last.op = "hex" /\ err = "nil") =>
        /\ f.LastOffset = f.StartOffset + f.Size - 1
        /\ f.RawData.len >= f.StartOffset + f.Size

\* a HEX file was loaded and classified, and its buffer is longer than the image
C4_Witness ==
    last.op = "hex" /\ err = "nil" /\ f.RawData.len > f.StartOffset + f.Size

\* C5: after data records pushed in any order, StartOffset is the least address
\* seen, Size the greatest address+length seen minus StartOffset, and LastOffset
\* is StartOffset + Size - 1.
C5_SpanTracked ==
    (phase = "push" /\ recs # {}) =>
        LET lo == Min({r[1] : r \in recs})
            hi == Max({r[1] + r[2] : r \in recs})
        IN /\ f.StartOffset = lo
           /\ f.Size = hi - lo
           /\ f.LastOffset = f.StartOffset + f.Size - 1

\* the records C6 calls rejected: fewer than 4 bytes, fewer data bytes than the
\* length byte declares, a type other than 0x00 and 0xFD, signature data that
\* ends beyond byte 256
Rejected(h) ==
    \/ h.nil
    \/ h.len < 4
    \/ h.len - 4 < h.arr[1]
    \/ h.arr[4] \notin {0, 253}
    \/ h.arr[4] = 253 /\ h.arr[2] * 256 + h.arr[3] + h.arr[1] > SignatureSize

\* C6: a rejected record yields an error and leaves every field of the entity
\* as it was before the call.
C6_RejectLeavesEntity ==
    (last.op = "push" /\ Rejected(last.line)) => (err = "error" /\ f = pre)

\* C7: ParseFirmwareHex skips every line that does not decode, decodes to
\* fewer than 4 bytes (an empty line too) or has another record type, and goes
\* on: the entity is the one the file without these lines produces.
C7_BadLinesSkipped ==
    /\ (last.op = "scan" /\ last.bad) => (phase = "hex" /\ f = pre)
    /\ last.op = "scan" => (phase = "hex" => f = ghost)

\* C8: on every buffer ParseFirmwareTI succeeds or returns an error; it never
\* panics.
C8_TINeverPanics ==
    AfterBin => ParseFirmwareTI(pre).err \in {"nil", "error"}

\* C9: the bootloader check of ParseFirmwareNordic only sets HasBL: the result
\* is the one the function has without the check, and HasBL is true only when
\* the buffer holds 04 6D at 0x7400+0xBB0.
C9_BLCheckOnlySetsHasBL ==
    (AfterBin /\ ParseFirmwareTI(pre).err = "error") =>
        LET in == ParseFirmwareTI(pre).f
            r == ParseFirmwareNordic(in)
        IN /\ r.err = NordicSizes(in).err
           /\ r.f.HasBL =>
                /\ in.RawData.len >= NordicVidPos + 2
                /\ SubSeq(in.RawData.arr, NordicVidPos + 1, NordicVidPos + 2) = <<4, 109>>

\* C10: a failed classification attempt leaves no layout field behind: a
\* Nordic entity holds the layout of the candidate size that validated and, in
\* the field only the TI detector writes, the value from before the attempt.
C10_FailedAttemptLeavesFields ==
    (last.op \in {"bin", "rebin", "hex"} /\ err = "nil" /\ IsNordic(f)) =>
        /\ f.TailPos = pre.TailPos
        /\ f.StartOffset = 0
        /\ f.Size \in {NordicSizeA, NordicSizeB}
        /\ f.LastOffset = f.Size - 1
        /\ f.CRC = f.RawData.arr[f.Size - 1] * 256 + f.RawData.arr[f.Size]

====
